---- MODULE Spec2Model ----
(***************************************************************************)
(* Model of the review-classifier page (src/unnamed/part_000): the two     *)
(* variants of callApi (the permissive one, lines 80-120, and the strict   *)
(* retrying one, lines 223-285) with their callers onSentiment / onNouns.  *)
(*                                                                         *)
(* Texts are sequences of lexical atoms (words, numbers, punctuation,      *)
(* " " and "\n"), so that String.includes, split("\n")[0], toLowerCase,    *)
(* trim and slice are computed rather than assumed.  An atom is a piece of *)
(* text that holds none of the words the code searches for, or is exactly  *)
(* such a word; blanks between two word atoms are left implicit.           *)
(***************************************************************************)
EXTENDS Integers, Sequences, FiniteSets

(***************************************************************************)
(* Bounds of the model.                                                    *)
(***************************************************************************)
\* longest server-supplied text (error body, generated text), in atoms
MaxTextLen == 2

Min(a, b) == IF a < b THEN a ELSE b

RECURSIVE SeqsUpTo(_, _)
SeqsUpTo(S, n) ==
    IF n = 0 THEN {<<>>}
    ELSE LET shorter == SeqsUpTo(S, n - 1)
         IN  shorter \cup {Append(s, a) : s \in {t \in shorter : Len(t) = n - 1}, a \in S}

(***************************************************************************)
(* String primitives of JavaScript, on atom sequences.                     *)
(***************************************************************************)
\* String.prototype.includes
Includes(t, needle) ==
    \E i \in 1..(Len(t) - Len(needle) + 1) :
        SubSeq(t, i, i + Len(needle) - 1) = needle

\* String.prototype.slice(0, n)
Slice(t, n) == SubSeq(t, 1, Min(Len(t), n))

IsSpace(a) == a \in {" ", "\n"}

\* String.prototype.trim
Trim(t) ==
    LET keep == {i \in 1..Len(t) : ~IsSpace(t[i])}
    IN  IF keep = {} THEN <<>>
        ELSE LET lo == CHOOSE i \in keep : \A j \in keep : i <= j
                 hi == CHOOSE i \in keep : \A j \in keep : j <= i
             IN  SubSeq(t, lo, hi)

\* String.prototype.split("\n")[0]
FirstLine(t) ==
    LET nl == {i \in 1..Len(t) : t[i] = "\n"}
    IN  IF nl = {} THEN t
        ELSE SubSeq(t, 1, (CHOOSE i \in nl : \A j \in nl : i <= j) - 1)

LowerAtom(a) ==
    CASE a = "Positive" -> "positive"
      [] a = "NEGATIVE" -> "negative"
      [] a = "High"     -> "high"
      [] OTHER          -> a

\* String.prototype.toLowerCase
ToLowerCase(t) == [i \in 1..Len(t) |-> LowerAtom(t[i])]

\* the decimal rendering of a status in a template literal
StatusText(s) ==
    CASE s = 200 -> "200" [] s = 401 -> "401" [] s = 402 -> "402"
      [] s = 404 -> "404" [] s = 429 -> "429" [] s = 500 -> "500"
      [] s = 503 -> "503"

(***************************************************************************)
(* Values exchanged with the network.                                      *)
(***************************************************************************)
\* a JSON field that may be absent; has = FALSE gives val = <<>>
Absent == [has |-> FALSE, val |-> <<>>]
Present(t) == [has |-> TRUE, val |-> t]

\* atoms the server may put in an error body; "404" is a word the retry test looks for
BodyAtoms == {"busy", "404"}
Bodies == SeqsUpTo(BodyAtoms, MaxTextLen - 1)

\* atoms of a generated text
GenAtoms == {"Positive", "NEGATIVE", "High", "meh", " ", "\n"}
GenTexts == SeqsUpTo(GenAtoms, MaxTextLen)

\* values of an "error" field
ErrTexts == {<<>>, <<"model not found">>}

\* a parsed JSON body: null, an array (n elements; gen, err are the fields of
\* element 0) or an object (gen, err are its own fields)
NullData == [t |-> "null", n |-> 0, gen |-> Absent, err |-> Absent]
JsonData ==
    {NullData}
    \cup {[t |-> "arr", n |-> 0, gen |-> Absent, err |-> Absent]}
    \cup {[t |-> "arr", n |-> 1, gen |-> g, err |-> Absent] :
              g \in {Absent} \cup {Present(x) : x \in GenTexts}}
    \cup {[t |-> "obj", n |-> 0, gen |-> g, err |-> e] :
              g \in {Absent} \cup {Present(x) : x \in GenTexts},
              e \in {Absent} \cup {Present(x) : x \in ErrTexts}}

ErrStatuses == {401, 402, 404, 429, 500, 503}

\* messages of the TypeError a browser rejects fetch with
NetMessages == {<<"Failed to fetch">>}
\* messages of the SyntaxError of res.json(); engines quote a piece of the body
JsonMessages == {<<"Unexpected token">>, <<"Unexpected token", "404", "is not valid JSON">>}

\* how a fetch settles: rejected; a non-2xx status whose body is read (readable) or
\* not; a 2xx status whose body parses (data) or not
Responses ==
    {[type |-> "reject", status |-> 0, readable |-> FALSE, text |-> m, data |-> NullData] :
         m \in NetMessages}
    \cup {[type |-> "http", status |-> s, readable |-> TRUE, text |-> b, data |-> NullData] :
         s \in ErrStatuses, b \in Bodies}
    \cup {[type |-> "http", status |-> s, readable |-> FALSE, text |-> <<>>, data |-> NullData] :
         s \in ErrStatuses}
    \cup {[type |-> "badjson", status |-> 200, readable |-> FALSE, text |-> m, data |-> NullData] :
         m \in JsonMessages}
    \cup {[type |-> "json", status |-> 200, readable |-> TRUE, text |-> <<>>, data |-> d] :
         d \in JsonData}

NoResponse == [type |-> "none", status |-> 0, readable |-> FALSE, text |-> <<>>, data |-> NullData]

(***************************************************************************)
(* JavaScript exceptions and completions.                                  *)
(***************************************************************************)
NewError(msg) == [name |-> "Error", message |-> msg]
NoError == [name |-> "", message |-> <<>>]

\* String(e) of an Error object: "name: message", or the name alone
ErrorToString(e) ==
    IF e.message = <<>> THEN <<e.name>> ELSE <<e.name, ":">> \o e.message

\* String(e.message || e)
MessageOrString(e) == IF e.message # <<>> THEN e.message ELSE ErrorToString(e)

Throw(e) == [threw |-> TRUE, exc |-> e, data |-> NullData, text |-> <<>>]
ReturnData(d) == [threw |-> FALSE, exc |-> NoError, data |-> d, text |-> <<>>]
ReturnText(t) == [threw |-> FALSE, exc |-> NoError, data |-> NullData, text |-> t]

\* what awaiting fetch and reading the body throws before any status is looked at
FetchFailure(r) ==
    IF r.type = "reject" THEN [name |-> "TypeError", message |-> r.text]
    ELSE [name |-> "SyntaxError", message |-> r.text]

\* truthiness of a string-valued field
Truthy(f) == f.has /\ f.val # <<>>

(***************************************************************************)
(* callApi, permissive variant (part_000 lines 80-129).                    *)
(***************************************************************************)
SafeErrorCap == 500

\* safeError(res): the first 500 characters of the body, "" when it cannot be read
safeError(r) == IF r.readable THEN Slice(r.text, SafeErrorCap) ELSE <<>>

\* lines 94-99: the error thrown for a non-2xx status
StatusError1(r) ==
    LET msg == safeError(r)
    IN  CASE r.status = 402 ->
               NewError(<<"Payment required (402). Provide a valid Hugging Face token or try later.",
                          "\n">> \o msg)
          [] r.status = 429 ->
               NewError(<<"Rate limited (429). Please slow down and try again.", "\n">> \o msg)
          [] OTHER ->
               NewError(<<"API error", StatusText(r.status), ".", "\n">> \o msg)

\* line 112
Normalize(text) == Trim(ToLowerCase(FirstLine(text)))

\* lines 101-113: extract and normalize the generated text
Parse1(data) ==
    IF data.t = "arr" /\ data.n > 0 /\ data.gen.has
    THEN ReturnText(Normalize(data.gen.val))
    ELSE IF data.t = "null"
    THEN \* typeof null === "object", then reading a property of null
         Throw([name |-> "TypeError",
                message |-> <<"Cannot read properties of null (reading 'generated_text')">>])
    ELSE IF data.t = "obj" /\ data.gen.has
    THEN ReturnText(Normalize(data.gen.val))
    ELSE IF data.t = "obj" /\ Truthy(data.err)
    THEN Throw(NewError(data.err.val))
    ELSE Throw(NewError(<<"Unexpected API response.">>))

\* lines 88-113: the body of the try block once the fetch has settled as r
TryBody1(r) ==
    CASE r.type = "reject"  -> Throw(FetchFailure(r))
      [] r.type = "http"    -> Throw(StatusError1(r))
      [] r.type = "badjson" -> Throw(FetchFailure(r))
      [] r.type = "json"    -> Parse1(r.data)

(***************************************************************************)
(* callApi, strict retrying variant (part_000 lines 223-291).              *)
(***************************************************************************)
SafeTextCap == 800

TokenRequired ==
    <<"Hugging Face token is required for this endpoint. Create one at hf.co/settings/tokens and paste here.">>

\* safeText(res)
safeText(r) == IF r.readable THEN Slice(r.text, SafeTextCap) ELSE <<>>

\* lines 245-252
StatusError2(r) ==
    LET body == safeText(r)
        msg  == <<"API error", StatusText(r.status), ".">> \o body
    IN  CASE r.status = 402 ->
               NewError(<<"Payment required (402). Provide a valid HF token or try later.", "\n">>
                        \o body)
          [] r.status = 429 ->
               NewError(<<"Rate limited (429). Please slow down and try again.", "\n">> \o body)
          [] r.status \in {404, 503} ->
               NewError(<<"Model is", "warming", "up", "or temporarily unavailable.">> \o msg)
          [] OTHER -> NewError(msg)

\* lines 239-254: one attempt, once its fetch has settled as r
attempt(r) ==
    CASE r.type = "reject"  -> Throw(FetchFailure(r))
      [] r.type = "http"    -> Throw(StatusError2(r))
      [] r.type = "badjson" -> Throw(FetchFailure(r))
      [] r.type = "json"    -> ReturnData(r.data)

\* line 262: the test that decides on the retry
ShouldRetry(e) ==
    \/ Includes(ErrorToString(e), <<"warming", "up">>)
    \/ Includes(ErrorToString(e), <<"404">>)
    \/ Includes(ErrorToString(e), <<"503">>)

\* Parse2 with the embedded error text dropped in favour of the generic message
Parse2DropsError(data) ==
    IF data.t = "arr" /\ data.n > 0 /\ Truthy(data.gen)
    THEN ReturnText(Normalize(data.gen.val))
    ELSE IF data.t = "obj" /\ Truthy(data.gen)
    THEN ReturnText(Normalize(data.gen.val))
    ELSE Throw(NewError(<<"Unexpected API response.">>))

\* lines 270-278
Parse2(data) ==
    IF data.t = "arr" /\ data.n > 0 /\ Truthy(data.gen)
    THEN ReturnText(Normalize(data.gen.val))
    ELSE IF data.t = "obj" /\ Truthy(data.gen)
    THEN ReturnText(Normalize(data.gen.val))
    ELSE IF data.t = "obj" /\ Truthy(data.err)
    THEN Throw(NewError(data.err.val))
    ELSE Throw(NewError(<<"Unexpected API response.">>))

\* lines 259-278 from the point where the last attempt has settled as r
AfterAttempt2(r) ==
    LET a == attempt(r)
    IN  IF a.threw THEN a ELSE Parse2(a.data)

(***************************************************************************)
(* The settled promise of callApi: catch and finally of both variants      *)
(* (lines 114-119 and 279-284).                                            *)
(***************************************************************************)
NoShown == [has |-> FALSE, val |-> <<>>]
Pending == [state |-> "pending", isNull |-> FALSE, text |-> <<>>, shown |-> NoShown]

\* Settle without the catch clause: the exception leaves callApi
SettleRethrows(c) ==
    IF c.threw
    THEN [state |-> "rejected", isNull |-> FALSE, text |-> <<>>, shown |-> NoShown]
    ELSE [state |-> "fulfilled", isNull |-> FALSE, text |-> c.text, shown |-> NoShown]

\* catch (e) { showError(String(e.message || e)); return null; }
Settle(c) ==
    IF c.threw
    THEN [state |-> "fulfilled", isNull |-> TRUE, text |-> <<>>,
          shown |-> [has |-> TRUE, val |-> MessageOrString(c.exc)]]
    ELSE [state |-> "fulfilled", isNull |-> FALSE, text |-> c.text, shown |-> NoShown]

(***************************************************************************)
(* The page: DOM fields and the callApi invocation under way.              *)
(***************************************************************************)
VARIABLES
    variant,    \* which script the page loads: "permissive" (lines 1-147) or "strict" (150-300)
    tokenEl,    \* tokenEl.value
    reviewEl,   \* reviewEl.value
    sentEl,     \* sentEl.textContent
    nounEl,     \* nounEl.textContent
    errEl,      \* errEl.style.display and errEl.textContent
    spinner,    \* spinner.style.display
    call,       \* the invocation of callApi: where it stands and what it has done
    lf,         \* the page of lecture_first/app.js (and of part_001), when that script is loaded
    lg,         \* the page of lecture_thirdindex/app.js with its localStorage, when loaded
    reviews,    \* let reviews = []  (part_000 lines 11 and 160)
    ready,      \* let ready = false (part_000 lines 12 and 161)
    calls       \* the invocations of callApi in flight, where clicks during a call are followed

vars == <<variant, tokenEl, reviewEl, sentEl, nounEl, errEl, spinner, call, lf, lg,
          reviews, ready, calls>>

\* what the handlers of onSentiment and onNouns leave alone when one call is followed
rest == <<lf, lg, reviews, ready, calls>>

\* the other two pages while their script is not the one loaded
LfClosed == [open |-> FALSE]
LgClosed == [open |-> FALSE]

TokenTexts == {<<>>, <<" ">>, <<"hf_abc", " ">>}
ReviewTexts == {<<>>, <<" ", "good">>}

Dash == "-"
ThumbsUp == "thumbs-up"
ThumbsDown == "thumbs-down"
Unknown == "?"
Green == "green"
Yellow == "yellow"
Red == "red"

Hidden == [display |-> "none", textContent |-> <<>>]

\* showError(msg)
showError(msg) == [display |-> "block", textContent |-> msg]

\* showSpin(on)
showSpin(on) == IF on THEN "grid" ELSE "none"

Idle ==
    [pc |-> "idle", kind |-> "none", tk |-> <<>>, auth |-> Absent, trace |-> <<>>,
     r1 |-> NoResponse, r2 |-> NoResponse, ret |-> Pending, label |-> ""]

\* lines 57-62 and 200-205: the emoji for a normalized answer
Emoji(first) ==
    IF Includes(first, <<"positive">>) THEN ThumbsUp
    ELSE IF Includes(first, <<"negative">>) THEN ThumbsDown
    ELSE IF Includes(first, <<"neutral">>) THEN Unknown
    ELSE Unknown

\* lines 72-76 and 215-219: the badge for a normalized answer
Badge(first) ==
    IF Includes(first, <<"high">>) THEN Green
    ELSE IF Includes(first, <<"medium">>) THEN Yellow
    ELSE IF Includes(first, <<"low">>) THEN Red
    ELSE Dash

\* if (!out) return;  -- null and "" are both falsy
Falsy(ret) == ret.isNull \/ ret.text = <<>>

\* what the caller writes once callApi has settled as ret: "" when it writes nothing
Rendered(kind, ret) ==
    IF Falsy(ret) THEN ""
    ELSE IF kind = "sent" THEN Emoji(ret.text) ELSE Badge(ret.text)

Init ==
    /\ variant \in {"permissive", "strict"}
    /\ tokenEl = <<>>
    /\ reviewEl = <<>>
    \* init() runs loadTSV(), whose first statement is resetUI()
    /\ sentEl = Dash
    /\ nounEl = Dash
    /\ errEl = Hidden
    /\ spinner = "none"
    /\ call = Idle
    /\ lf = LfClosed
    /\ lg = LgClosed
    \* the TSV load and clicks during a call are followed in SpecRandom and SpecOverlap
    /\ reviews = <<>>
    /\ ready = FALSE
    /\ calls = <<>>

\* the user edits the token field
TypeToken ==
    /\ \E t \in TokenTexts : tokenEl' = t
    /\ UNCHANGED <<variant, reviewEl, sentEl, nounEl, errEl, spinner, call, rest>>

\* the user edits the review field
TypeReview ==
    /\ \E t \in ReviewTexts : reviewEl' = t
    /\ UNCHANGED <<variant, tokenEl, sentEl, nounEl, errEl, spinner, call, rest>>

\* the invocation has settled as ret: catch/finally of callApi, then the rest of the caller
Finish(kind, ret, rec) ==
    /\ call' = [rec EXCEPT !.pc = "done", !.ret = ret, !.label = Rendered(kind, ret)]
    /\ errEl' = IF ret.shown.has THEN showError(ret.shown.val) ELSE errEl
    /\ spinner' = showSpin(FALSE)
    /\ sentEl' = IF kind = "sent" /\ ~Falsy(ret) THEN Rendered(kind, ret) ELSE sentEl
    /\ nounEl' = IF kind = "noun" /\ ~Falsy(ret) THEN Rendered(kind, ret) ELSE nounEl

\* Click with the spinner shown before the token is checked
ClickSpinsFirst(kind) ==
    /\ call.pc \in {"idle", "done"}
    /\ sentEl' = Dash
    /\ nounEl' = Dash
    /\ LET text == Trim(reviewEl)
           tk   == Trim(tokenEl)
       IN  IF text = <<>>
           THEN /\ errEl' = showError(<<"Please provide review text.">>)
                /\ UNCHANGED <<spinner, call>>
           ELSE IF variant = "strict" /\ tk = <<>>
           THEN \* the token check placed after showSpin(true)
                /\ errEl' = showError(TokenRequired)
                /\ call' = [Idle EXCEPT !.pc = "done", !.kind = kind,
                                        !.ret = Settle(Throw(NewError(TokenRequired)))]
                /\ spinner' = showSpin(TRUE)
           ELSE /\ errEl' = Hidden
                /\ spinner' = showSpin(TRUE)
                /\ call' = [Idle EXCEPT !.pc = "await1", !.kind = kind, !.tk = tk,
                                        !.auth = IF variant = "strict" \/ tk # <<>>
                                                 THEN Present(<<"Bearer">> \o tk) ELSE Absent,
                                        !.trace = <<"POST">>]
    /\ UNCHANGED <<variant, tokenEl, reviewEl, rest>>

\* Click calling resetUI(false): the two displays keep their values
ClickKeepsDisplays(kind) ==
    /\ call.pc \in {"idle", "done"}
    /\ UNCHANGED <<sentEl, nounEl>>
    /\ LET text == Trim(reviewEl)
           tk   == Trim(tokenEl)
       IN  IF text = <<>>
           THEN /\ errEl' = showError(<<"Please provide review text.">>)
                /\ UNCHANGED <<spinner, call>>
           ELSE IF variant = "strict" /\ tk = <<>>
           THEN \* lines 225-228: refused before showSpin and before any request
                /\ errEl' = showError(TokenRequired)
                /\ call' = [Idle EXCEPT !.pc = "done", !.kind = kind,
                                        !.ret = Settle(Throw(NewError(TokenRequired)))]
                /\ UNCHANGED spinner
           ELSE /\ errEl' = Hidden
                /\ spinner' = showSpin(TRUE)
                /\ call' = [Idle EXCEPT !.pc = "await1", !.kind = kind, !.tk = tk,
                                        !.auth = IF variant = "strict" \/ tk # <<>>
                                                 THEN Present(<<"Bearer">> \o tk) ELSE Absent,
                                        !.trace = <<"POST">>]
    /\ UNCHANGED <<variant, tokenEl, reviewEl, rest>>

\* onSentiment / onNouns up to the first await inside callApi.  One invocation is
\* followed at a time: the next click that reaches callApi comes once it has settled.
Click(kind) ==
    /\ call.pc \in {"idle", "done"}
    /\ sentEl' = Dash
    /\ nounEl' = Dash
    /\ LET text == Trim(reviewEl)
           tk   == Trim(tokenEl)
       IN  IF text = <<>>
           THEN /\ errEl' = showError(<<"Please provide review text.">>)
                /\ UNCHANGED <<spinner, call>>
           ELSE IF variant = "strict" /\ tk = <<>>
           THEN \* lines 225-228: refused before showSpin and before any request
                /\ errEl' = showError(TokenRequired)
                /\ call' = [Idle EXCEPT !.pc = "done", !.kind = kind,
                                        !.ret = Settle(Throw(NewError(TokenRequired)))]
                /\ UNCHANGED spinner
           ELSE /\ errEl' = Hidden
                /\ spinner' = showSpin(TRUE)
                /\ call' = [Idle EXCEPT !.pc = "await1", !.kind = kind, !.tk = tk,
                                        !.auth = IF variant = "strict" \/ tk # <<>>
                                                 THEN Present(<<"Bearer">> \o tk) ELSE Absent,
                                        !.trace = <<"POST">>]
    /\ UNCHANGED <<variant, tokenEl, reviewEl, rest>>

onSentiment == Click("sent")

onNouns == Click("noun")

\* the fetch of the permissive callApi settles
Respond1 ==
    /\ variant = "permissive"
    /\ call.pc = "await1"
    /\ \E r \in Responses :
           Finish(call.kind, Settle(TryBody1(r)), [call EXCEPT !.r1 = r])
    /\ UNCHANGED <<variant, tokenEl, reviewEl, rest>>

\* the first fetch of the strict callApi settles: lines 259-268, then 270-284
RespondFirst ==
    /\ variant = "strict"
    /\ call.pc = "await1"
    /\ \E r \in Responses :
           LET a == attempt(r)
               rec == [call EXCEPT !.r1 = r]
           IN  IF a.threw /\ ShouldRetry(a.exc)
               THEN /\ call' = [rec EXCEPT !.pc = "sleep", !.trace = Append(@, "SLEEP")]
                    /\ UNCHANGED <<errEl, spinner, sentEl, nounEl>>
               ELSE Finish(call.kind, Settle(AfterAttempt2(r)), rec)
    /\ UNCHANGED <<variant, tokenEl, reviewEl, rest>>

\* the retry timer fires: line 264 issues the second request
Wake ==
    /\ call.pc = "sleep"
    /\ call' = [call EXCEPT !.pc = "await2", !.trace = Append(@, "POST")]
    /\ UNCHANGED <<variant, tokenEl, reviewEl, sentEl, nounEl, errEl, spinner, rest>>

\* RespondSecond reporting the first attempt's error when the retry fails too
RespondSecondKeepsFirst ==
    /\ call.pc = "await2"
    /\ \E r \in Responses :
           LET c == AfterAttempt2(r)
           IN  Finish(call.kind,
                      Settle(IF c.threw THEN attempt(call.r1) ELSE c),
                      [call EXCEPT !.r2 = r])
    /\ UNCHANGED <<variant, tokenEl, reviewEl, rest>>

\* RespondSecond applying the retry test to the second attempt as well
RespondSecondRetries ==
    /\ call.pc = "await2"
    /\ \E r \in Responses :
           LET a == attempt(r)
               rec == [call EXCEPT !.r2 = r]
           IN  IF a.threw /\ ShouldRetry(a.exc)
               THEN /\ call' = [rec EXCEPT !.pc = "sleep", !.trace = Append(@, "SLEEP")]
                    /\ UNCHANGED <<errEl, spinner, sentEl, nounEl>>
               ELSE Finish(call.kind, Settle(AfterAttempt2(r)), rec)
    /\ UNCHANGED <<variant, tokenEl, reviewEl, rest>>

\* the second fetch settles: its outcome is final
RespondSecond ==
    /\ call.pc = "await2"
    /\ \E r \in Responses :
           Finish(call.kind, Settle(AfterAttempt2(r)), [call EXCEPT !.r2 = r])
    /\ UNCHANGED <<variant, tokenEl, reviewEl, rest>>

Next ==
    \/ TypeToken
    \/ TypeReview
    \/ onSentiment
    \/ onNouns
    \/ Respond1
    \/ RespondFirst
    \/ Wake
    \/ RespondSecond

Spec == Init /\ [][Next]_vars

(***************************************************************************)
(* The sentiment page of lecture_first/app.js; part_001 is its earlier     *)
(* version (no initial disabling of the button, no 401 message, a weaker   *)
(* check of the response shape).  The page's markup is not in the          *)
(* repository: the result, error and loading panels start hidden.          *)
(***************************************************************************)
\* most data rows of the TSV file
MaxRows == 1
\* most analysis requests followed at once
MaxInFlight == 2

page == <<variant, tokenEl, reviewEl, sentEl, nounEl, errEl, spinner, call, reviews, ready, calls>>

\* row.text of a parsed row: undefined, or a string
RowTexts == {Absent, Present(<<>>), Present(<<" ">>), Present(<<"great", " ">>)}

\* how the TSV fetch settles: rejected, or a text that Papa.parse turns into rows,
\* with or without parse errors
TsvOutcomes ==
    {[type |-> "reject", text |-> m, errors |-> FALSE, rows |-> <<>>] : m \in NetMessages}
    \cup {[type |-> "text", text |-> <<"Too few fields">>, errors |-> e, rows |-> rows] :
              e \in BOOLEAN, rows \in SeqsUpTo(RowTexts, MaxRows)}

\* lecture_first lines 38-40: text && text.trim() !== ''
KeepRow(f) == f.has /\ f.val # <<>> /\ Trim(f.val) # <<>>

LoadReviews(rows) ==
    LET kept == SelectSeq(rows, KeepRow)
    IN  [i \in 1..Len(kept) |-> kept[i].val]

\* a classification result {label, score}; the score in percent
LfResults ==
    {[isNull |-> TRUE, label |-> "", score |-> 0]}
    \cup {[isNull |-> FALSE, label |-> l, score |-> sc] :
              l \in {"POSITIVE", "NEGATIVE", "NEUTRAL"}, sc \in {30, 90}}

\* shapes of the parsed body: null, an object, [], [x] with x no array, [[]], [[result]]
LfData ==
    {[shape |-> sh, result |-> [isNull |-> TRUE, label |-> "", score |-> 0]] :
         sh \in {"null", "obj", "empty", "flat", "emptyInner"}}
    \cup {[shape |-> "nested", result |-> r] : r \in LfResults}

NoLfData == [shape |-> "null", result |-> [isNull |-> TRUE, label |-> "", score |-> 0]]

LfStatuses == {401, 429, 500, 503}

\* how the inference fetch and response.json() settle
LfResponses ==
    {[type |-> "reject", status |-> 0, text |-> m, data |-> NoLfData] : m \in NetMessages}
    \cup {[type |-> "http", status |-> st, text |-> <<>>, data |-> NoLfData] : st \in LfStatuses}
    \cup {[type |-> "badjson", status |-> 200, text |-> m, data |-> NoLfData] : m \in JsonMessages}
    \cup {[type |-> "json", status |-> 200, text |-> <<>>, data |-> d] : d \in LfData}

NoLfResponse == [type |-> "none", status |-> 0, text |-> <<>>, data |-> NoLfData]

LfFailure(msg) == [ok |-> FALSE, message |-> msg, label |-> "", score |-> 0]

\* lecture_first lines 97-107 and part_001 lines 76-84: the error of a non-2xx status
LfStatusMessage(v, st) ==
    IF st = 503 THEN <<"Model is loading, please try again in a few moments">>
    ELSE IF st = 429 THEN <<"Rate limit exceeded. Please add an API token for higher limits">>
    ELSE IF st = 401 /\ v = "lecture_first" THEN <<"Invalid API token provided">>
    ELSE <<"API error:", StatusText(st)>>

\* lecture_first lines 112-114 and part_001 lines 88-90: the body is rejected
LfInvalid(v, d) ==
    \/ d.shape \in {"null", "obj", "empty"}
    \/ v = "lecture_first" /\ d.shape \in {"flat", "emptyInner"}

\* displaySentimentResult: lecture_first lines 135-161, part_001 lines 104-125
displaySentimentResult(d) ==
    IF d.shape # "nested"
    THEN LfFailure(<<"Cannot read properties of undefined (reading 'label')">>)
    ELSE IF d.result.isNull
    THEN LfFailure(<<"Cannot read properties of null (reading 'label')">>)
    ELSE [ok |-> TRUE, message |-> <<>>,
          label |-> IF d.result.label = "POSITIVE" /\ d.result.score > 50 THEN "Positive"
                    ELSE IF d.result.label = "NEGATIVE" /\ d.result.score > 50 THEN "Negative"
                    ELSE "Neutral",
          score |-> d.result.score]

\* the promise chain of analyzeRandomReview up to its catch, for a fetch settled as r
LfOutcome(v, r) ==
    CASE r.type = "reject"  -> LfFailure(r.text)
      [] r.type = "http"    -> LfFailure(LfStatusMessage(v, r.status))
      [] r.type = "badjson" -> LfFailure(r.text)
      [] r.type = "json"    ->
            IF LfInvalid(v, r.data) THEN LfFailure(<<"Invalid response from API">>)
            ELSE displaySentimentResult(r.data)

LfHiddenError == [hidden |-> TRUE, textContent |-> <<>>]

\* showError(message): lecture_first lines 167-172
LfShowError(rec, msg) ==
    [rec EXCEPT !.error = [hidden |-> FALSE, textContent |-> msg],
                !.loadingHidden = TRUE,
                !.disabled = FALSE]

\* the chain without its .finally
LfFinallyMissing(rec) == rec

\* .finally of analyzeRandomReview: lecture_first lines 124-128
LfFinally(rec) == [rec EXCEPT !.loadingHidden = TRUE, !.disabled = FALSE]

\* the page once the DOMContentLoaded handler has run, the button disabled or not
LfLoaded(d) ==
    [open |-> TRUE, tsv |-> "loading", reviews |-> <<>>, disabled |-> d,
     resultHidden |-> TRUE, error |-> LfHiddenError, loadingHidden |-> TRUE,
     apiToken |-> <<>>, reviewDisplay |-> Absent, sentiment |-> "",
     reqs |-> <<>>, last |-> NoLfResponse]

InitFirst ==
    /\ variant \in {"lecture_first", "part_001"}
    /\ tokenEl = <<>>
    /\ reviewEl = <<>>
    /\ sentEl = Dash
    /\ nounEl = Dash
    /\ errEl = Hidden
    /\ spinner = "none"
    /\ call = Idle
    \* lecture_first line 15 disables the button; part_001 leaves it as the markup has it
    /\ lf \in {LfLoaded(d) : d \in IF variant = "lecture_first" THEN {TRUE} ELSE BOOLEAN}
    /\ lg = LgClosed
    /\ reviews = <<>>
    /\ ready = FALSE
    /\ calls = <<>>

\* the user edits the token field
LfTypeToken ==
    /\ lf.open
    /\ \E t \in TokenTexts : lf' = [lf EXCEPT !.apiToken = t]
    /\ UNCHANGED <<page, lg>>

\* the TSV fetch settles: lecture_first lines 21-54
TsvSettles ==
    /\ lf.open
    /\ lf.tsv = "loading"
    /\ \E o \in TsvOutcomes :
         LET rec == [lf EXCEPT !.tsv = "settled"]
             loaded == [rec EXCEPT !.reviews = LoadReviews(o.rows)]
         IN  lf' = IF o.type = "reject"
                   THEN LfShowError(rec, <<"Error loading TSV file: ">> \o o.text)
                   ELSE IF o.errors
                   THEN LfShowError(rec, <<"Error parsing TSV file: ">> \o o.text)
                   ELSE IF Len(loaded.reviews) = 0
                   THEN LfShowError(loaded, <<"No reviews found in the TSV file">>)
                   ELSE [loaded EXCEPT !.disabled = FALSE]
    /\ UNCHANGED <<page, lg>>

\* the header set whatever the token
BearerAlways(tk) == Present(<<"Bearer">> \o tk)

\* the Authorization header of a request for the trimmed token tk
Bearer(tk) == IF tk # <<>> THEN Present(<<"Bearer">> \o tk) ELSE Absent

\* analyzeRandomReview without the disabling of the button at line 69
analyzeLeavesEnabled ==
    /\ lf.open
    /\ ~lf.disabled
    /\ Len(lf.reqs) < MaxInFlight
    /\ \E picked \in IF lf.reviews = <<>> THEN {Absent}
                     ELSE {Present(lf.reviews[i]) : i \in 1..Len(lf.reviews)} :
         lf' = [lf EXCEPT !.error = LfHiddenError,
                          !.resultHidden = TRUE,
                          !.loadingHidden = FALSE,
                          !.reviewDisplay = picked,
                          !.reqs = Append(@, [review |-> picked,
                                              token |-> lf.apiToken,
                                              auth |-> Bearer(Trim(lf.apiToken))])]
    /\ UNCHANGED <<page, lg>>

\* analyzeRandomReview without the hideError() of line 66
analyzeKeepsError ==
    /\ lf.open
    /\ ~lf.disabled
    /\ Len(lf.reqs) < MaxInFlight
    /\ \E picked \in IF lf.reviews = <<>> THEN {Absent}
                     ELSE {Present(lf.reviews[i]) : i \in 1..Len(lf.reviews)} :
         lf' = [lf EXCEPT !.resultHidden = TRUE,
                          !.loadingHidden = FALSE,
                          !.disabled = TRUE,
                          !.reviewDisplay = picked,
                          !.reqs = Append(@, [review |-> picked,
                                              token |-> lf.apiToken,
                                              auth |-> Bearer(Trim(lf.apiToken))])]
    /\ UNCHANGED <<page, lg>>

\* a click on the enabled button: analyzeRandomReview up to its fetch, lines 64-94
analyzeRandomReview ==
    /\ lf.open
    /\ ~lf.disabled
    /\ Len(lf.reqs) < MaxInFlight
    /\ \E picked \in IF lf.reviews = <<>> THEN {Absent}
                     ELSE {Present(lf.reviews[i]) : i \in 1..Len(lf.reviews)} :
         lf' = [lf EXCEPT !.error = LfHiddenError,
                          !.resultHidden = TRUE,
                          !.loadingHidden = FALSE,
                          !.disabled = TRUE,
                          !.reviewDisplay = picked,
                          !.reqs = Append(@, [review |-> picked,
                                              token |-> lf.apiToken,
                                              auth |-> Bearer(Trim(lf.apiToken))])]
    /\ UNCHANGED <<page, lg>>

\* the fetch of a request settles: then / then / catch / finally, lines 95-128
LfSettles ==
    /\ lf.open
    /\ \E i \in 1..Len(lf.reqs), r \in LfResponses :
         LET out == LfOutcome(variant, r)
             rec == [lf EXCEPT !.reqs = SubSeq(@, 1, i - 1) \o SubSeq(@, i + 1, Len(@)),
                               !.last = r]
         IN  lf' = LfFinally(IF out.ok
                             THEN [rec EXCEPT !.sentiment = out.label, !.resultHidden = FALSE]
                             ELSE LfShowError(rec, out.message))
    /\ UNCHANGED <<page, lg>>

NextFirst ==
    \/ LfTypeToken
    \/ TsvSettles
    \/ analyzeRandomReview
    \/ LfSettles

SpecFirst == InitFirst /\ [][NextFirst]_vars

\* a fetch that is in flight settles in the end
SpecFirstFair == SpecFirst /\ WF_vars(LfSettles)

(***************************************************************************)
(* The pages whose request does not require a token: the first script of   *)
(* part_000, and lecture_first with part_001.                              *)
(***************************************************************************)
InitPermissive ==
    \/ Init /\ variant = "permissive"
    \/ InitFirst

PermTypeToken == variant = "permissive" /\ TypeToken

PermTypeReview == variant = "permissive" /\ TypeReview

PermSentiment == variant = "permissive" /\ onSentiment

PermNouns == variant = "permissive" /\ onNouns

NextPermissive ==
    \/ PermTypeToken
    \/ PermTypeReview
    \/ PermSentiment
    \/ PermNouns
    \/ Respond1
    \/ LfTypeToken
    \/ TsvSettles
    \/ analyzeRandomReview
    \/ LfSettles

SpecPermissive == InitPermissive /\ [][NextPermissive]_vars

(***************************************************************************)
(* The logger page of lecture_thirdindex/app.js, with its localStorage.    *)
(* The markup is not in the repository: the elements the script looks up   *)
(* exist, and the status line starts empty.                                *)
(***************************************************************************)
\* most log requests followed at once
MaxSends == 1

\* texts of the gasUrl field: atoms are a scheme, the rest of a URL, or other text
UrlTexts ==
    {<<>>, <<" ">>, <<"not a url">>,
     <<" ", "https://", "script.google.com/macros/s/A/exec", " ">>,
     <<"https://", "script.google.com/macros/s/B/exec">>}

\* new URL(url) does not throw: an absolute URL, a scheme followed by the rest
ParsesAsUrl(t) == Len(t) >= 2 /\ t[1] = "https://" /\ ~IsSpace(t[2])

\* what localStorage holds under "gas_url" when the page is first opened: nothing,
\* or a URL that saveGasUrl stored earlier
StoredUrls == {Absent} \cup {Present(Trim(t)) : t \in {u \in UrlTexts : ParsesAsUrl(Trim(u))}}

\* crypto.randomUUID() where it exists, else Math.random().toString(36).slice(2),
\* which is "" for Math.random() = 0 ("0".slice(2))
NewIds == {<<"uuid-1">>, <<"k3j9x">>, <<>>}

\* what localStorage holds under "uid" when the page is first opened
StoredIds == {Absent, Present(<<"uuid-0">>)}

\* getUserId() on a storage holding uid, gen being the id a generation would give:
\* the id returned and the storage left
getUserId(uid, gen) ==
    IF ~Truthy(uid)
    THEN [ret |-> gen, uid |-> Present(gen)]
    ELSE [ret |-> uid.val, uid |-> uid]

\* localStorage.getItem(key) || ""
OrEmpty(f) == IF f.has THEN f.val ELSE <<>>

\* getGasUrl preferring the saved URL to the text entered
getGasUrlPrefersSaved(input, saved) ==
    LET stored == Trim(OrEmpty(saved))
    IN  IF stored # <<>> THEN [url |-> stored, input |-> stored]
        ELSE [url |-> Trim(input), input |-> input]

\* getGasUrl(): the URL returned and the text left in the input field
getGasUrl(input, saved) ==
    LET entered == Trim(input)
        stored == Trim(OrEmpty(saved))
    IN  IF entered # <<>> THEN [url |-> entered, input |-> input]
        ELSE [url |-> stored, input |-> IF stored # <<>> THEN stored ELSE input]

PleasePaste == <<"Please paste your Apps Script Web App URL (ending with /exec).">>
InvalidFormat == <<"Invalid URL format.">>
SavedMessage == <<"Saved Web App URL.">>
LoadedMessage == <<"Loaded saved Web App URL.">>
MissingMessage == <<"Missing Web App URL. Paste it and click Save URL first.">>
Logged == <<"Logged">>
MISSING_URL == <<"MISSING_URL">>

\* saveGasUrl storing any non-blank text
SaveOutcomeUnparsed(input, saved) ==
    LET url == Trim(input)
    IN  IF url = <<>> THEN [saved |-> saved, status |-> PleasePaste]
        ELSE [saved |-> Present(url), status |-> SavedMessage]

\* saveGasUrl(): the stored URL and the status line it leaves
SaveOutcome(input, saved) ==
    LET url == Trim(input)
    IN  IF url = <<>> THEN [saved |-> saved, status |-> PleasePaste]
        ELSE IF ~ParsesAsUrl(url) THEN [saved |-> saved, status |-> InvalidFormat]
        ELSE [saved |-> Present(url), status |-> SavedMessage]

\* a sendLogSimple that posts whatever getGasUrl returns
MissingUrlIgnored(url) == FALSE

\* if (!url)
MissingUrl(url) == url = <<>>

\* how the log fetch and res.text() settle
LgResponses ==
    {[type |-> "reject", status |-> 0, readable |-> FALSE, text |-> m] : m \in NetMessages}
    \cup {[type |-> "http", status |-> st, readable |-> rd, text |-> b] :
              st \in {200, 500}, rd \in BOOLEAN, b \in {<<"ok">>}}

NoLgResponse == [type |-> "none", status |-> 0, readable |-> FALSE, text |-> <<>>]

\* the try block of sendLogSimple without the test of res.ok
LogBodyUnchecked(r) ==
    IF r.type = "reject" \/ ~r.readable
    THEN Throw([name |-> "TypeError", message |-> IF r.type = "reject" THEN r.text
                                                  ELSE <<"Failed to fetch">>])
    ELSE ReturnText(r.text)

\* the try block of sendLogSimple for a fetch settled as r: lines 79-87
LogBody(r) ==
    IF r.type = "reject" \/ ~r.readable
    THEN Throw([name |-> "TypeError", message |-> IF r.type = "reject" THEN r.text
                                                  ELSE <<"Failed to fetch">>])
    ELSE IF r.status # 200
    THEN Throw(NewError(<<"HTTP", StatusText(r.status), ":">> \o r.text))
    ELSE ReturnText(r.text)

\* sendLogSimple once the fetch has settled as r: the status line and the result
LogOutcome(r) ==
    LET c == LogBody(r)
    IN  IF c.threw
        THEN [status |-> <<"Log failed: ">> \o ErrorToString(c.exc),
              result |-> <<"ERROR: ">> \o ErrorToString(c.exc)]
        ELSE [status |-> Logged, result |-> c.text]

\* what the last handler did: its name, the input field and the stored URL it found,
\* the stored URL and status line it left, and for sendLogSimple the URL it used,
\* the response it got and its result
LgStep(op, input, before, after, status, url, resp, result) ==
    [op |-> op, input |-> input, before |-> before, after |-> after, status |-> status,
     url |-> url, resp |-> resp, result |-> result]

\* init(): lines 95-120, on a storage holding saved and uid
LgLoaded(saved, uid, gen) ==
    LET g == getUserId(uid, gen)
        status == IF Truthy(saved) THEN LoadedMessage ELSE <<>>
    IN  [open |-> TRUE, savedUrl |-> saved, uid |-> g.uid, uidBefore |-> uid,
         input |-> IF Truthy(saved) THEN saved.val ELSE <<>>,
         status |-> status, userId |-> g.ret, sends |-> <<>>,
         last |-> LgStep("load", <<>>, saved, saved, status, <<>>, NoLgResponse, <<>>)]

InitLogger ==
    /\ variant = "logger"
    /\ tokenEl = <<>>
    /\ reviewEl = <<>>
    /\ sentEl = Dash
    /\ nounEl = Dash
    /\ errEl = Hidden
    /\ spinner = "none"
    /\ call = Idle
    /\ lf = LfClosed
    /\ lg \in {LgLoaded(sv, id, gen) : sv \in StoredUrls, id \in StoredIds, gen \in NewIds}
    /\ reviews = <<>>
    /\ ready = FALSE
    /\ calls = <<>>

\* the page is opened again on the same storage; requests of the old page are dropped
Reload ==
    /\ lg.open
    /\ \E gen \in NewIds : lg' = LgLoaded(lg.savedUrl, lg.uid, gen)
    /\ UNCHANGED <<page, lf>>

\* the user edits the gasUrl field
TypeUrl ==
    /\ lg.open
    /\ \E t \in UrlTexts :
         lg' = [lg EXCEPT !.input = t,
                          !.last = LgStep("type", t, lg.savedUrl, lg.savedUrl,
                                          lg.status, <<>>, NoLgResponse, <<>>)]
    /\ UNCHANGED <<page, lf>>

\* a click on Save URL
saveGasUrl ==
    /\ lg.open
    /\ LET o == SaveOutcome(lg.input, lg.savedUrl)
       IN  lg' = [lg EXCEPT !.savedUrl = o.saved,
                            !.status = o.status,
                            !.last = LgStep("save", lg.input, lg.savedUrl, o.saved,
                                            o.status, <<>>, NoLgResponse, <<>>)]
    /\ UNCHANGED <<page, lf>>

\* sendLogSimple(payload) up to its fetch, or to its early return: lines 64-83
sendLogSimple(event, v) ==
    /\ lg.open
    /\ Len(lg.sends) < MaxSends
    /\ LET g == getGasUrl(lg.input, lg.savedUrl)
       IN  IF MissingUrl(g.url)
           THEN lg' = [lg EXCEPT !.input = g.input,
                                 !.status = MissingMessage,
                                 !.last = LgStep("send", lg.input, lg.savedUrl, lg.savedUrl,
                                                 MissingMessage, g.url, NoLgResponse,
                                                 MISSING_URL)]
           ELSE lg' = [lg EXCEPT !.input = g.input,
                                 !.sends = Append(@, [url |-> g.url, event |-> event,
                                                      variant |-> v, userId |-> lg.userId]),
                                 !.last = LgStep("post", lg.input, lg.savedUrl, lg.savedUrl,
                                                 lg.status, g.url, NoLgResponse, <<>>)]
    /\ UNCHANGED <<page, lf>>

ctaA == sendLogSimple("cta_click", "A")

ctaB == sendLogSimple("cta_click", "B")

heartbeat == sendLogSimple("heartbeat", "")

\* the fetch of a log request settles: the rest of sendLogSimple, lines 84-91
LogSettles ==
    /\ lg.open
    /\ \E i \in 1..Len(lg.sends), r \in LgResponses :
         LET o == LogOutcome(r)
         IN  lg' = [lg EXCEPT !.sends = SubSeq(@, 1, i - 1) \o SubSeq(@, i + 1, Len(@)),
                              !.status = o.status,
                              !.last = LgStep("settle", lg.input, lg.savedUrl, lg.savedUrl,
                                              o.status, lg.sends[i].url, r, o.result)]
    /\ UNCHANGED <<page, lf>>

NextLogger ==
    \/ Reload
    \/ TypeUrl
    \/ saveGasUrl
    \/ ctaA
    \/ ctaB
    \/ heartbeat
    \/ LogSettles

SpecLogger == InitLogger /\ [][NextLogger]_vars

(***************************************************************************)
(* part_000 with clicks during a call: the buttons are never disabled, so  *)
(* invocations of callApi overlap; each one in flight is an entry of calls.*)
(***************************************************************************)
\* most invocations of callApi in flight at once
MaxCalls == 2

InitOverlap == Init

\* calls without its i-th entry
Without(i) == SubSeq(calls, 1, i - 1) \o SubSeq(calls, i + 1, Len(calls))

\* the i-th invocation has settled as ret: catch/finally of callApi, then the rest
\* of its caller
OvFinish(i, ret) ==
    LET kind == calls[i].kind
    IN  /\ calls' = Without(i)
        /\ errEl' = IF ret.shown.has THEN showError(ret.shown.val) ELSE errEl
        /\ spinner' = showSpin(FALSE)
        /\ sentEl' = IF kind = "sent" /\ ~Falsy(ret) THEN Rendered(kind, ret) ELSE sentEl
        /\ nounEl' = IF kind = "noun" /\ ~Falsy(ret) THEN Rendered(kind, ret) ELSE nounEl

\* onSentiment / onNouns up to the first await inside callApi, whatever is in flight
OvClick(kind) ==
    /\ Len(calls) < MaxCalls
    /\ sentEl' = Dash
    /\ nounEl' = Dash
    /\ LET text == Trim(reviewEl)
           tk   == Trim(tokenEl)
       IN  IF text = <<>>
           THEN /\ errEl' = showError(<<"Please provide review text.">>)
                /\ UNCHANGED <<spinner, calls>>
           ELSE IF variant = "strict" /\ tk = <<>>
           THEN /\ errEl' = showError(TokenRequired)
                /\ UNCHANGED <<spinner, calls>>
           ELSE /\ errEl' = Hidden
                /\ spinner' = showSpin(TRUE)
                /\ calls' = Append(calls, [kind |-> kind, pc |-> "await1"])
    /\ UNCHANGED <<variant, tokenEl, reviewEl, call, lf, lg, reviews, ready>>

OvSentiment == OvClick("sent")

OvNouns == OvClick("noun")

\* the fetch of an invocation of the permissive callApi settles
OvRespond1 ==
    /\ variant = "permissive"
    /\ \E i \in 1..Len(calls), r \in Responses :
           /\ calls[i].pc = "await1"
           /\ OvFinish(i, Settle(TryBody1(r)))
    /\ UNCHANGED <<variant, tokenEl, reviewEl, call, lf, lg, reviews, ready>>

\* the first fetch of an invocation of the strict callApi settles
OvRespondFirst ==
    /\ variant = "strict"
    /\ \E i \in 1..Len(calls), r \in Responses :
           /\ calls[i].pc = "await1"
           /\ LET a == attempt(r)
              IN  IF a.threw /\ ShouldRetry(a.exc)
                  THEN /\ calls' = [calls EXCEPT ![i].pc = "sleep"]
                       /\ UNCHANGED <<errEl, spinner, sentEl, nounEl>>
                  ELSE OvFinish(i, Settle(AfterAttempt2(r)))
    /\ UNCHANGED <<variant, tokenEl, reviewEl, call, lf, lg, reviews, ready>>

\* the retry timer of an invocation fires
OvWake ==
    /\ \E i \in 1..Len(calls) :
           /\ calls[i].pc = "sleep"
           /\ calls' = [calls EXCEPT ![i].pc = "await2"]
    /\ UNCHANGED <<variant, tokenEl, reviewEl, sentEl, nounEl, errEl, spinner, call,
                   lf, lg, reviews, ready>>

\* the second fetch of an invocation settles
OvRespondSecond ==
    /\ \E i \in 1..Len(calls), r \in Responses :
           /\ calls[i].pc = "await2"
           /\ OvFinish(i, Settle(AfterAttempt2(r)))
    /\ UNCHANGED <<variant, tokenEl, reviewEl, call, lf, lg, reviews, ready>>

NextOverlap ==
    \/ TypeToken
    \/ TypeReview
    \/ OvSentiment
    \/ OvNouns
    \/ OvRespond1
    \/ OvRespondFirst
    \/ OvWake
    \/ OvRespondSecond

SpecOverlap == InitOverlap /\ [][NextOverlap]_vars

(***************************************************************************)
(* part_000 with its TSV load and onRandom (lines 14-48 and 163-191, the   *)
(* same code in both scripts), followed on the page of the first script,   *)
(* with sentiment calls, one at a time, going on meanwhile.                *)
(***************************************************************************)
\* most data rows of reviews_test.tsv
MaxTsvRows == 2

\* r.text of a parsed row: undefined, or a string
TsvTexts == {Absent, Present(<<" ">>), Present(<<"good", " ">>), Present(<<" ", "bad">>)}

\* how the load settles: fetch or res.text() rejected, a non-2xx status, or rows
LoadOutcomes ==
    {[type |-> "reject", status |-> 0, text |-> m, rows |-> <<>>] : m \in NetMessages}
    \cup {[type |-> "http", status |-> 404, text |-> <<>>, rows |-> <<>>]}
    \cup {[type |-> "rows", status |-> 200, text |-> <<>>, rows |-> rows] :
              rows \in SeqsUpTo(TsvTexts, MaxTsvRows)}

\* (r.text ?? "").toString().trim()
RowText(f) == Trim(IF f.has THEN f.val ELSE <<>>)

\* lines 30-36 and 179: .map(...).filter(Boolean)
ParseRows(rows) ==
    LET NonEmpty(t) == t # <<>>
    IN  SelectSeq([i \in 1..Len(rows) |-> RowText(rows[i])], NonEmpty)

\* the try block of loadTSV for a load settled as o: the reviews assigned, and the
\* exception thrown if any
LoadBody(o) ==
    CASE o.type = "reject" ->
             [reviews |-> <<>>, threw |-> TRUE,
              exc |-> [name |-> "TypeError", message |-> o.text]]
      [] o.type = "http" ->
             [reviews |-> <<>>, threw |-> TRUE,
              exc |-> NewError(<<"TSV load failed:", StatusText(o.status)>>)]
      [] o.type = "rows" ->
             LET rs == ParseRows(o.rows)
             IN  [reviews |-> rs, threw |-> rs = <<>>,
                  exc |-> IF rs = <<>> THEN NewError(<<"No review texts found in TSV">>)
                          ELSE NoError]

DataNotLoaded == <<"Data not loaded.">>

InitRandom ==
    /\ Init
    /\ variant = "permissive"

\* the load settles: the rest of loadTSV, then the finally of init
LoadSettles ==
    /\ ~ready
    /\ \E o \in LoadOutcomes :
         LET b == LoadBody(o)
         IN  /\ reviews' = b.reviews
             /\ errEl' = IF b.threw
                         THEN showError(<<"Failed to load TSV.", "\n">>
                                        \o MessageOrString(b.exc))
                         ELSE errEl
    /\ ready' = TRUE
    /\ UNCHANGED <<variant, tokenEl, reviewEl, sentEl, nounEl, spinner, call, lf, lg, calls>>

\* onRandom calling resetUI() with its default: the displays are cleared too
onRandomClears ==
    /\ IF ~ready \/ Len(reviews) = 0
       THEN /\ errEl' = showError(DataNotLoaded)
            /\ UNCHANGED reviewEl
       ELSE /\ errEl' = Hidden
            /\ \E i \in 1..Len(reviews) : reviewEl' = reviews[i]
    /\ sentEl' = Dash
    /\ nounEl' = Dash
    /\ UNCHANGED <<variant, tokenEl, spinner, call, rest>>

\* a click on the random button: lines 43-48 and 186-191
onRandom ==
    /\ IF ~ready \/ Len(reviews) = 0
       THEN /\ errEl' = showError(DataNotLoaded)
            /\ UNCHANGED reviewEl
       ELSE /\ errEl' = Hidden
            /\ \E i \in 1..Len(reviews) : reviewEl' = reviews[i]
    /\ UNCHANGED <<variant, tokenEl, sentEl, nounEl, spinner, call, rest>>

NextRandom ==
    \/ LoadSettles
    \/ onRandom
    \/ TypeReview
    \/ onSentiment
    \/ Respond1

SpecRandom == InitRandom /\ [][NextRandom]_vars

(***************************************************************************)
(* Properties.                                                             *)
(***************************************************************************)
Count(seq, x) == Cardinality({i \in 1..Len(seq) : seq[i] = x})

\* the response of the last attempt made
FinalResponse == IF call.r2 # NoResponse THEN call.r2 ELSE call.r1

Done == call.pc = "done"

\* callApi has settled as a failure: null returned after showError
Failed == Done /\ call.ret.state = "fulfilled" /\ call.ret.isNull /\ call.ret.shown.has

HasGenerated(d) == (d.t = "arr" /\ d.n > 0 /\ d.gen.has) \/ (d.t = "obj" /\ d.gen.has)

\* C1: in the retrying callApi, a first attempt answered 402, 429 or 401 is final
\* whatever the body: one POST, no retry delay, failure reported.
C1_FatalStatusNotRetried ==
    (variant = "strict" /\ call.r1.type = "http" /\ call.r1.status \in {402, 429, 401})
        => (Failed /\ call.trace = <<"POST">>)

\* C2: in the retrying callApi, a first attempt answered 404 or 503 followed by a 2xx
\* carrying a generated_text resolves to the normalized text of the second body, with
\* exactly two POSTs and exactly one sleep, between them.
C2_WarmupThenSuccess ==
    (variant = "strict" /\ Done
       /\ call.r1.type = "http" /\ call.r1.status \in {404, 503}
       /\ call.r2.type = "json" /\ HasGenerated(call.r2.data))
        => /\ call.ret.state = "fulfilled"
           /\ ~call.ret.isNull
           /\ call.ret.text = Normalize(call.r2.data.gen.val)
           /\ call.trace = <<"POST", "SLEEP", "POST">>

\* C3: when both attempts are answered 404 or 503, the call fails and the message
\* shown is made of the second response alone (its status and its body).
C3_SecondFailureOnly ==
    (variant = "strict" /\ Done
       /\ call.r1.type = "http" /\ call.r1.status \in {404, 503}
       /\ call.r2.type = "http" /\ call.r2.status \in {404, 503})
        => /\ Failed
           /\ call.ret.shown.val =
                  <<"Model is", "warming", "up", "or temporarily unavailable.",
                    "API error", StatusText(call.r2.status), ".">>
                  \o (IF call.r2.readable THEN call.r2.text ELSE <<>>)

C3_Witness ==
    /\ variant = "strict" /\ Done
    /\ call.r1.type = "http" /\ call.r1.status = 404 /\ call.r1.text = <<"busy">>
    /\ call.r2.type = "http" /\ call.r2.status = 503 /\ call.r2.text = <<"404">>
    /\ call.ret.isNull

\* C4: one invocation issues at most two POSTs and takes at most one retry delay,
\* and once the second attempt has settled the invocation has settled.
C4_AtMostOneRetry ==
    /\ Count(call.trace, "POST") <= 2
    /\ Count(call.trace, "SLEEP") <= 1
    /\ (call.r2 # NoResponse => Done)

C4_Witness ==
    /\ Done
    /\ call.trace = <<"POST", "SLEEP", "POST">>
    /\ call.r2.type = "http" /\ call.r2.status = 503
    /\ call.ret.isNull

\* C5: in the retrying callApi, a first attempt that fails with a status outside
\* {404, 503}, or whose fetch is rejected, is final: one POST, failure reported.
C5_OtherFailureNotRetried ==
    (variant = "strict"
       /\ \/ (call.r1.type = "http" /\ call.r1.status \notin {404, 503})
          \/ call.r1.type = "reject")
        => (Failed /\ call.trace = <<"POST">>)

IsNormalized(t) ==
    /\ \A i \in 1..Len(t) : t[i] # "\n" /\ LowerAtom(t[i]) = t[i]
    /\ t # <<>> => (~IsSpace(t[1]) /\ ~IsSpace(t[Len(t)]))

\* C6: in both variants callApi never rejects; it is settled exactly when the
\* invocation is over, with a normalized string or with null, and with null only
\* after showError.
C6_AlwaysResolves ==
    /\ call.ret.state # "rejected"
    /\ (call.ret.state = "fulfilled") <=> Done
    /\ Done => IF call.ret.isNull THEN call.ret.shown.has
               ELSE ~call.ret.shown.has /\ IsNormalized(call.ret.text)

C6_Witness ==
    /\ Done /\ call.ret.state = "fulfilled" /\ call.ret.isNull /\ call.ret.shown.has
    /\ call.r2.type = "reject"
    /\ errEl.display = "block"

\* C7: in both variants, a 2xx body whose first element, or which itself, has a
\* string generated_text (the empty string included) resolves to the first line of
\* that text, lowercased and trimmed.
C7_GeneratedTextResolves ==
    (Done /\ FinalResponse.type = "json" /\ HasGenerated(FinalResponse.data))
        => /\ call.ret.state = "fulfilled"
           /\ ~call.ret.isNull
           /\ call.ret.text = Trim(ToLowerCase(FirstLine(FinalResponse.data.gen.val)))

\* C8: whenever the call behind onSentiment succeeds, the caller renders thumbs-up,
\* thumbs-down or the unknown mark and shows no error: the display does not stay at
\* its reset value.
C8_SentimentAlwaysRendered ==
    (Done /\ call.kind = "sent" /\ call.ret.state = "fulfilled" /\ ~call.ret.isNull)
        => /\ call.label \in {ThumbsUp, ThumbsDown, Unknown}
           /\ ~call.ret.shown.has

\* C9 as stated: a 2xx body with an error field and no generated_text fails with
\* exactly the embedded error text shown, and the caller renders no label.
C9_EmbeddedErrorShown ==
    (Done /\ FinalResponse.type = "json" /\ FinalResponse.data.t = "obj"
       /\ FinalResponse.data.err.has /\ ~FinalResponse.data.gen.has)
        => /\ Failed
           /\ call.ret.shown.val = FinalResponse.data.err.val
           /\ call.label = ""

\* C9 amended: a 2xx body with a non-empty error field and no generated_text fails
\* with exactly the embedded error text shown, and the caller renders no label.
C9_NonEmptyEmbeddedErrorShown ==
    (Done /\ FinalResponse.type = "json" /\ FinalResponse.data.t = "obj"
       /\ FinalResponse.data.err.has /\ FinalResponse.data.err.val # <<>>
       /\ ~FinalResponse.data.gen.has)
        => /\ Failed
           /\ call.ret.shown.val = FinalResponse.data.err.val
           /\ call.label = ""

C9_Witness ==
    /\ Done /\ variant = "strict"
    /\ FinalResponse.type = "json" /\ FinalResponse.data.t = "obj"
    /\ FinalResponse.data.err = Present(<<"model not found">>)
    /\ ~FinalResponse.data.gen.has
    /\ errEl = showError(<<"model not found">>)

\* the kind of failure a displayed message announces
FailureKind(msg) ==
    IF msg = <<>> THEN "None"
    ELSE CASE msg[1] \in {"Payment required (402). Provide a valid Hugging Face token or try later.",
                          "Payment required (402). Provide a valid HF token or try later."}
                -> "PaymentRequired"
           [] msg[1] = "Rate limited (429). Please slow down and try again." -> "RateLimited"
           [] msg[1] = "Model is" -> "ModelWarmingUp"
           [] msg[1] = "API error" -> "Generic"
           [] OTHER -> "Other"

\* C10: the failure reported follows from the status: 402 is payment-required, 429 is
\* rate-limited, 401 has a kind of its own, and all three differ from the generic
\* failure of the other non-2xx statuses.
C10_KindsDistinct ==
    (Done /\ FinalResponse.type = "http")
        => LET kind == FailureKind(call.ret.shown.val)
           IN  /\ FinalResponse.status = 402 => kind = "PaymentRequired"
               /\ FinalResponse.status = 429 => kind = "RateLimited"
               /\ FinalResponse.status = 401 =>
                      kind \notin {"PaymentRequired", "RateLimited", "ModelWarmingUp", "Generic"}
               /\ FinalResponse.status = 500 => kind = "Generic"


\* C12: in the strict callApi, a call made with a blank token field is refused at
\* once: no request is issued, the spinner is not shown, the token message is
\* displayed and the call resolves to null.
C12_StrictRefusesWithoutToken ==
    (variant = "strict" /\ call.pc # "idle" /\ call.tk = <<>>)
        => /\ Done
           /\ call.trace = <<>>
           /\ call.r1 = NoResponse
           /\ spinner = showSpin(FALSE)
           /\ call.ret.state = "fulfilled"
           /\ call.ret.isNull
           /\ call.ret.shown = Present(TokenRequired)

C12_Witness ==
    /\ variant = "strict"
    /\ Done
    /\ call.tk = <<>>
    /\ Trim(tokenEl) = <<>>
    /\ Trim(reviewEl) # <<>>
    /\ errEl = showError(TokenRequired)
    /\ call.ret.isNull


\* the header a carries the token tk: present exactly when tk is non-empty, and then
\* "Bearer " followed by tk
HeaderMatches(a, tk) ==
    /\ a.has <=> tk # <<>>
    /\ a.has => a.val = <<"Bearer">> \o tk

\* C11: in the first callApi of part_000 and in analyzeRandomReview, a request is
\* sent whether or not a token is entered, and it carries an Authorization header
\* exactly when the trimmed token field is non-empty, its value then "Bearer "
\* followed by that token.
C11_PermissiveHeader ==
    /\ (variant = "permissive" /\ call.pc # "idle")
           => /\ Len(call.trace) >= 1
              /\ call.trace[1] = "POST"
              /\ HeaderMatches(call.auth, call.tk)
    /\ lf.open
           => /\ \A i \in 1..Len(lf.reqs) :
                    HeaderMatches(lf.reqs[i].auth, Trim(lf.reqs[i].token))
              \* the button disabled after the load: a click has sent its request
              /\ (lf.tsv = "settled" /\ lf.disabled) => Len(lf.reqs) >= 1

C11_Witness ==
    /\ variant = "lecture_first"
    /\ Len(lf.reqs) = 1
    /\ lf.reqs[1].token = <<" ">>
    /\ ~lf.reqs[1].auth.has
    /\ lf.reqs[1].review.has


\* C14: in lecture_first an enabled analyze button implies a non-empty reviews list,
\* after a failed or empty TSV load too, so every inference request carries a
\* review text.
C14_EnabledImpliesReviews ==
    variant = "lecture_first"
        => /\ ~lf.disabled => lf.reviews # <<>>
           /\ \A i \in 1..Len(lf.reqs) : lf.reqs[i].review.has

\* C15: in lecture_first at most one inference request is in flight, the analyze
\* button staying disabled from the click until that request has settled, whatever
\* the order of clicks, TSV load and responses.
C15_OneRequestInFlight ==
    variant = "lecture_first"
        => /\ Len(lf.reqs) <= 1
           /\ Len(lf.reqs) = 1 => lf.disabled

C15_Witness ==
    /\ variant = "lecture_first"
    /\ lf.tsv = "settled"
    /\ Len(lf.reqs) = 1
    /\ lf.disabled
    /\ lf.last.type # "none"

\* C16: in lecture_first every analysis under way ends, whatever its outcome, with
\* the loading indicator hidden and the analyze button enabled, given that the
\* fetch settles.
C16_AnalysisEnds ==
    (variant = "lecture_first" /\ Len(lf.reqs) > 0)
        ~> (lf.reqs = <<>> /\ lf.loadingHidden /\ ~lf.disabled)

C16_Witness ==
    /\ variant = "lecture_first"
    /\ lf.last.type = "json"
    /\ ~lf.resultHidden
    /\ lf.reqs = <<>>
    /\ lf.loadingHidden
    /\ ~lf.disabled


\* C13: sendLogSimple finds a missing endpoint before any network call: with no
\* endpoint URL saved it issues no fetch, sets the guidance message and resolves to
\* "MISSING_URL"; a log POST is sent only with an endpoint URL configured.
C13_NoSavedUrlNoFetch ==
    /\ (lg.open /\ lg.last.op \in {"send", "post"} /\ ~Truthy(lg.last.before))
           => /\ lg.last.op = "send"
              /\ lg.last.status = MissingMessage
              /\ lg.last.result = MISSING_URL
    /\ lg.open => \A i \in 1..Len(lg.sends) : lg.sends[i].url # <<>>

\* C13 as the code has it: the endpoint is missing when the input field is blank
\* and no URL is saved.
C13_BlankAndUnsavedNoFetch ==
    /\ (lg.open /\ lg.last.op \in {"send", "post"}
            /\ Trim(lg.last.input) = <<>> /\ Trim(OrEmpty(lg.last.before)) = <<>>)
           => /\ lg.last.op = "send"
              /\ lg.last.status = MissingMessage
              /\ lg.last.result = MISSING_URL
    /\ (lg.open /\ lg.last.op = "send")
           => Trim(lg.last.input) = <<>> /\ Trim(OrEmpty(lg.last.before)) = <<>>
    /\ lg.open => \A i \in 1..Len(lg.sends) : lg.sends[i].url # <<>>

C13_Witness ==
    /\ lg.open
    /\ lg.last.op = "send"
    /\ lg.last.input = <<" ">>
    /\ ~lg.last.before.has
    /\ lg.status = MissingMessage
    /\ lg.sends = <<>>

\* the fetch settled with a 2xx status and a body that was read
Completed2xx(r) == r.type = "http" /\ r.status \in 200..299 /\ r.readable

\* C17: sendLogSimple never rejects: the status becomes "Logged" and the raw
\* response text is returned exactly when the POST completed with a 2xx status;
\* otherwise the status is "Log failed: ..." and the result starts with "ERROR: ".
C17_LogReportsFaithfully ==
    (lg.open /\ lg.last.op = "settle")
        => /\ Completed2xx(lg.last.resp)
                <=> (lg.last.status = Logged /\ lg.last.result = lg.last.resp.text)
           /\ ~Completed2xx(lg.last.resp)
                => /\ Len(lg.last.status) > 1 /\ lg.last.status[1] = "Log failed: "
                   /\ Len(lg.last.result) > 1 /\ lg.last.result[1] = "ERROR: "
                   /\ SubSeq(lg.last.result, 2, Len(lg.last.result))
                          = SubSeq(lg.last.status, 2, Len(lg.last.status))

C17_Witness ==
    /\ lg.open
    /\ lg.last.op = "settle"
    /\ lg.last.resp.type = "http"
    /\ lg.last.resp.status = 500
    /\ lg.last.resp.readable
    /\ lg.status = <<"Log failed: ", "Error", ":", "HTTP", "500", ":", "ok">>

\* C18: saveGasUrl overwrites the stored URL exactly when the trimmed input is
\* non-empty and parses as a URL; on blank or malformed input the stored value is
\* unchanged and the status line says why.
C18_SaveOnlyValid ==
    (lg.open /\ lg.last.op = "save")
        => LET url == Trim(lg.last.input)
           IN  /\ (url # <<>> /\ ParsesAsUrl(url))
                     => lg.last.after = Present(url) /\ lg.last.status = SavedMessage
               /\ url = <<>>
                     => lg.last.after = lg.last.before /\ lg.last.status = PleasePaste
               /\ (url # <<>> /\ ~ParsesAsUrl(url))
                     => lg.last.after = lg.last.before /\ lg.last.status = InvalidFormat
               /\ lg.savedUrl = lg.last.after

C18_Witness ==
    /\ lg.open
    /\ lg.last.op = "save"
    /\ lg.last.input = <<"not a url">>
    /\ lg.last.before.has
    /\ lg.savedUrl = lg.last.before
    /\ lg.status = InvalidFormat

\* C19: once a user id is in storage every later getUserId returns it without
\* rewriting storage, a first call on empty storage stores the id it returns, and
\* every event logged carries that id.
C19_UserIdStable ==
    lg.open
        => /\ lg.uidBefore.has => (lg.userId = lg.uidBefore.val /\ lg.uid = lg.uidBefore)
           /\ ~lg.uidBefore.has => lg.uid = Present(lg.userId)
           /\ \A i \in 1..Len(lg.sends) : lg.sends[i].userId = lg.userId

\* C20: sendLogSimple uses the trimmed input-field value when it is non-blank, else
\* the saved value; reading the endpoint and sending a log never write the saved
\* URL, which changes only through saveGasUrl.
C20_EndpointChoice ==
    lg.open
        => /\ lg.last.op \in {"send", "post"}
                => lg.last.url = IF Trim(lg.last.input) # <<>> THEN Trim(lg.last.input)
                                 ELSE Trim(OrEmpty(lg.last.before))
           /\ (lg.last.op = "post" /\ lg.sends # <<>>)
                => lg.sends[Len(lg.sends)].url = lg.last.url
           /\ lg.last.op # "save" => lg.last.after = lg.last.before
           /\ lg.savedUrl = lg.last.after

C20_Witness ==
    /\ lg.open
    /\ lg.last.op = "post"
    /\ lg.last.before.has
    /\ Trim(lg.last.input) # <<>>
    /\ Trim(lg.last.input) # lg.last.before.val
    /\ lg.sends # <<>>
    /\ lg.sends[1].url = Trim(lg.last.input)
    /\ lg.savedUrl = lg.last.before


\* C23: in lecture_first the result panel and the error panel are never visible
\* together, whatever the TSV outcomes, clicks and responses, and after a completed
\* analysis exactly one of them is visible.
C23_ResultXorError ==
    variant = "lecture_first"
        => /\ ~(~lf.resultHidden /\ ~lf.error.hidden)
           /\ (lf.last.type # "none" /\ lf.reqs = <<>>)
                 => (lf.resultHidden # lf.error.hidden)

C23_Witness ==
    /\ variant = "lecture_first"
    /\ lf.last.type = "http"
    /\ lf.reqs = <<>>
    /\ lf.sentiment # ""
    /\ lf.resultHidden
    /\ ~lf.error.hidden


\* C24: in part_000 onSentiment and onNouns begin by hiding the error and resetting
\* both displays, also when they stop on the empty-text check or on a failed call;
\* so with invocations that do not overlap at most one display shows a result.
C24_BothDisplaysReset ==
    variant \in {"permissive", "strict"}
        => /\ sentEl = Dash \/ nounEl = Dash
           /\ call.pc \in {"await1", "sleep", "await2"}
                 => (sentEl = Dash /\ nounEl = Dash /\ errEl = Hidden)
           /\ errEl = showError(<<"Please provide review text.">>)
                 => (sentEl = Dash /\ nounEl = Dash)
           /\ Failed => (sentEl = Dash /\ nounEl = Dash)
           /\ (Done /\ call.kind = "sent") => nounEl = Dash
           /\ (Done /\ call.kind = "noun") => sentEl = Dash

C24_Witness ==
    /\ Done
    /\ call.kind = "noun"
    /\ nounEl = Green
    /\ sentEl = Dash
    /\ errEl = Hidden


\* C21: in part_000 onRandom writes the review field only with a member of the
\* loaded list, whose members are non-blank trimmed strings; while the load has not
\* finished, or when it failed or gave no rows, onRandom shows "Data not loaded."
\* and leaves the review field and both displays unchanged.
C21_RandomFromLoaded ==
    /\ [](/\ \A i \in 1..Len(reviews) : reviews[i] # <<>> /\ Trim(reviews[i]) = reviews[i]
          /\ ~ready => reviews = <<>>)
    /\ [][LoadSettles =>
            IF reviews' = <<>>
            THEN /\ errEl'.display = "block"
                 /\ errEl'.textContent[1] = "Failed to load TSV."
            ELSE errEl' = errEl]_vars
    /\ [][onRandom =>
            /\ sentEl' = sentEl
            /\ nounEl' = nounEl
            /\ IF ready /\ reviews # <<>>
               THEN \E i \in 1..Len(reviews) : reviewEl' = reviews[i]
               ELSE reviewEl' = reviewEl /\ errEl' = showError(DataNotLoaded)]_vars

C21_Witness ==
    /\ ready
    /\ Len(reviews) = 2
    /\ reviewEl = reviews[2]
    /\ reviewEl # reviews[1]
    /\ errEl = Hidden
    /\ sentEl # Dash


\* C22: in part_000, with clicks during a call, the spinner is visible in every
\* state in which an invocation of callApi is in flight.
C22_SpinnerWhileInFlight ==
    calls # <<>> => spinner = showSpin(TRUE)

====
